---- MODULE Spec2Model ----
(***************************************************************************)
(* Model of server/server.py: the BlockCache prefetch/consume pipeline     *)
(* (catch_up / maybe_prefill, process_cache, on_signal) and the retrying   *)
(* RPC layer under it (rpc_single, rpc_multi, daemon).                     *)
(*                                                                         *)
(* asyncio runs the two tasks and the signal callback on one thread, so    *)
(* every action below is the code one task runs between two of its         *)
(* suspension points (an await of a sleep or of the HTTP exchange).  The   *)
(* remote daemon and the chain it serves are the environment.              *)
(***************************************************************************)
EXTENDS Integers, Sequences, FiniteSets

\* ------------------------------------------------------------------ bounds
\* Highest chain height the daemon ever reports or serves.
MaxTip == 3
\* How many times getblockcount may answer a value other than its last one.
MaxMoves == 3
\* The heights the processor may start at (db.db_height).
DbHeights == {0, 1}
\* The end-to-end scenario: the processor starts at height 100 and the daemon
\* reports a tip of 150.
ScenarioDbHeights == {100}
ScenarioTips == {150}
\* The count of a round, case by case: the processor's start height, the size
\* of the first round already fetched, and the tip then reported, relative
\* to fetched_height.
CountDbHeights == {0, 100, 1000}
CountFetched == {0, 4, 10}
CountTipDeltas == {0 - 1, 0, 5, 60, 5000}
\* A catch-up of more than 50 blocks: start height and tip.
WindowDbHeights == {100}
WindowTips == {154}
\* prefill_count on its own: the rooms it is called with and the averages
\* (ave_size) it is called at.
PrefillRooms == {0, 1, 9, 10, 11, 99, 100, 110, 4000, 10 * 1024 * 1024}
PrefillAves == {0, 1, 3, 9, 10, 11, 100, 250880, 10 * 1024 * 1024 + 1}

\* ------------------------------------------------------ program constants
CacheLimitMB == 10
BatchCap == 4000
MinPrefill == 10
WindowSize == 50
WarmUpCode == -28
WarmUpSecs == 10
OtherSecs == 0
DaemonSecs == 1
DriverSecs == 1

\* cache_limit = self.cache_limit * 1024 * 1024
CacheLimitBytes == CacheLimitMB * 1024 * 1024

\* ------------------------------------------------------------- the daemon
\* An RPC error code that is not the warm-up code (-8: parameter out of range).
OtherCode == 0 - 8
\* The "error" member of a response element: JSON null, or an object with a code.
NoError == [isnull |-> TRUE, code |-> 0]
ErrorOf(c) == [isnull |-> FALSE, code |-> c]
\* The "result" member that goes with an error.
NoResult == [isnull |-> TRUE]

\* The chain the daemon serves: the byte length of the block at height h.
\* Up to height 100 every second block is 6 MiB and the others 5 MiB; from
\* there to height 1000 blocks have 200 to 260 KiB; above, 200 to 249 bytes.
SizeOf(h) ==
    IF h <= 100 THEN (IF h % 2 = 0 THEN 6 * 1024 * 1024 ELSE 5 * 1024 * 1024)
    ELSE IF h <= 1000 THEN (200 + 10 * (h % 7)) * 1024
    ELSE 200 + (h % 50)

\* getblockhash: the hash of the block at height h (an opaque hex string).
HashOf(h) == [hash |-> h]
\* getblock(hash, False): the hex serialisation, two hex digits per byte.
HexBlockOf(hash) == [height |-> hash.hash, hexlen |-> 2 * SizeOf(hash.hash)]
\* memoryview(bytes.fromhex(block)): len() of the result is half the hex length.
FromHex(hex) == [height |-> hex.height, len |-> hex.hexlen \div 2]

\* ---------------------------------------------------------------- helpers
RECURSIVE SumLen(_)
SumLen(s) == IF s = <<>> THEN 0 ELSE Head(s).len + SumLen(Tail(s))

RECURSIVE SumSeq(_)
SumSeq(s) == IF s = <<>> THEN 0 ELSE Head(s) + SumSeq(Tail(s))

Reversed(s) == [i \in 1..Len(s) |-> s[Len(s) + 1 - i]]

Min(a, b) == IF a < b THEN a ELSE b
Max(a, b) == IF a > b THEN a ELSE b

\* cache_used(): sum(len(block) for block in self.blocks)
CacheUsed(blks) == SumLen(blks)

\* Mutant of PrefillCount: the floor of 10 is left out.
PrefillCountNoFloor(room, ave) ==
    IF ave # 0 THEN room \div ave ELSE 0

\* prefill_count(room)
PrefillCount(room, ave) ==
    LET cnt == IF ave # 0 THEN room \div ave ELSE 0
    IN  Max(cnt, MinPrefill)

VARIABLES
    \* BlockCache fields
    stop, blocks, recent_sizes, ave_size, daemon_height, fetched_height,
    \* the downstream processor: db.db_height, the blocks handed to
    \* process_block (by height, in call order), the number of flush calls
    db_height, processed, flushes,
    \* producer task: position, why maybe_prefill returned False, and the
    \* locals of maybe_prefill that live across an await
    ppc, exit, cache_used, count,
    \* RPC layer: method in progress, payload built, payload last posted,
    \* the response daemon() returned last (dresult / dresults), duration of
    \* the current sleep
    method, payload, wire, dresults, secs,
    \* consumer task position
    cpc,
    \* environment bookkeeping: tip changes so far; bytes of the most
    \* recently merged batch
    moves, lastBatch,
    \* the chain heights the daemon may report during this run
    tips,
    \* the argument (room) of the prefill_count call made last
    prefill_room

cacheVars == <<stop, blocks, recent_sizes, ave_size, daemon_height, fetched_height>>
dbVars == <<db_height, processed, flushes>>
prodVars == <<ppc, exit, cache_used, count>>
rpcVars == <<method, payload, wire, dresults, secs>>
vars == <<cacheVars, dbVars, prodVars, rpcVars, cpc, moves, lastBatch, tips, prefill_room>>

\* dresults before daemon() has returned anything.
NoResp == [bound |-> FALSE, body |-> <<>>]
NoPayload == [shape |-> "none", reqs |-> <<>>]

\* BlockCache.__init__ and the two tasks created, none of them run yet, for a
\* processor at one of the heights dbs and a daemon reporting heights of ts.
Start(dbs, ts) ==
    /\ tips = ts
    /\ prefill_room = 0
    /\ stop = FALSE
    /\ blocks = <<>>
    /\ recent_sizes = <<>>
    /\ ave_size = 0
    /\ daemon_height = 0
    /\ db_height \in dbs
    /\ fetched_height = db_height
    /\ processed = <<>>
    /\ flushes = 0
    /\ ppc = "init"
    /\ exit = "none"
    /\ cache_used = 0
    /\ count = 0
    /\ method = "none"
    /\ payload = NoPayload
    /\ wire = NoPayload
    /\ dresults = NoResp
    /\ secs = 0
    /\ cpc = "init"
    /\ moves = 0
    /\ lastBatch = 0

Init == Start(DbHeights, 0..MaxTip)

\* Mutant of OnSignal: the flag is set but the buffer is kept.
OnSignalKeepsBuffer ==
    /\ stop' = TRUE
    /\ UNCHANGED <<blocks, recent_sizes, ave_size, daemon_height, fetched_height>>
    /\ UNCHANGED <<dbVars, prodVars, rpcVars, cpc, moves, lastBatch, tips, prefill_room>>

\* ------------------------------------------------------------- on_signal
OnSignal ==
    /\ blocks' = <<>>
    /\ stop' = TRUE
    /\ UNCHANGED <<recent_sizes, ave_size, daemon_height, fetched_height>>
    /\ UNCHANGED <<dbVars, prodVars, rpcVars, cpc, moves, lastBatch, tips, prefill_room>>

\* Mutant of ConsumerOuter: flush is called on every turn of the outer loop.
ConsumerOuterFlushes ==
    IF stop
    THEN /\ flushes' = flushes + 1
         /\ cpc' = "done"
    ELSE /\ flushes' = flushes + 1
         /\ cpc' = "sleep1"

\* --------------------------------------------------------- process_cache
\* The outer loop test and what follows it: the 1-unit sleep, or flush.
ConsumerOuter ==
    IF stop
    THEN /\ flushes' = flushes + 1
         /\ cpc' = "done"
    ELSE /\ cpc' = "sleep1"
         /\ UNCHANGED flushes

\* Mutant of ConsumerInner: the head of the buffer is popped.
ConsumerInnerPopsHead ==
    IF blocks # <<>>
    THEN /\ processed' = Append(processed, blocks[1].height)
         /\ blocks' = Tail(blocks)
         /\ cpc' = "sleep0"
         /\ UNCHANGED flushes
    ELSE /\ ConsumerOuter
         /\ UNCHANGED <<blocks, processed>>

\* The inner loop test: pop the tail and yield, or fall back to the outer loop.
ConsumerInner ==
    IF blocks # <<>>
    THEN /\ processed' = Append(processed, blocks[Len(blocks)].height)
         /\ blocks' = SubSeq(blocks, 1, Len(blocks) - 1)
         /\ cpc' = "sleep0"
         /\ UNCHANGED flushes
    ELSE /\ ConsumerOuter
         /\ UNCHANGED <<blocks, processed>>

ConsumerStart ==
    /\ cpc = "init"
    /\ ConsumerOuter
    /\ UNCHANGED <<cacheVars, db_height, processed, prodVars, rpcVars, moves, lastBatch, tips, prefill_room>>

\* asyncio.sleep(1) is over.
ConsumerTick ==
    /\ cpc = "sleep1"
    /\ ConsumerInner
    /\ UNCHANGED <<stop, recent_sizes, ave_size, daemon_height, fetched_height>>
    /\ UNCHANGED <<db_height, prodVars, rpcVars, moves, lastBatch, tips, prefill_room>>

\* asyncio.sleep(0) is over.
ConsumerYield ==
    /\ cpc = "sleep0"
    /\ ConsumerInner
    /\ UNCHANGED <<stop, recent_sizes, ave_size, daemon_height, fetched_height>>
    /\ UNCHANGED <<db_height, prodVars, rpcVars, moves, lastBatch, tips, prefill_room>>

Consumer == ConsumerStart \/ ConsumerTick \/ ConsumerYield

\* ------------------------------------------------------- the RPC layer
SingleRequest(m) == [method |-> m]
BatchRequest(m, p) == [method |-> m, params |-> p]

\* What the daemon answers to one request when it answers without an error;
\* t is the chain height it reports at that moment.
ResultOf(req, t) ==
    CASE req.method = "getblockcount" -> [int |-> t]
      [] req.method = "getblockhash" -> HashOf(req.params.height)
      [] req.method = "getblock" -> HexBlockOf(req.params.hash)

\* One element of a response: error code c, or 0 for a null error.
ElementOf(req, c, t) ==
    IF c = 0
    THEN [error |-> NoError, result |-> ResultOf(req, t)]
    ELSE [error |-> ErrorOf(c), result |-> NoResult]

\* The error codes of the elements of a batch response of n elements: one
\* code for all of them, except possibly for the first or the middle element.
ErrorPatterns(n) ==
    LET codes == {0, WarmUpCode, OtherCode}
        spots == {0, 1, n \div 2 + 1} \cap (0..n)
    IN  {[i \in 1..n |-> IF i = p THEN c ELSE b] :
            b \in codes, p \in spots, c \in codes}

\* The parsed bodies resp.json() can yield for what was posted: one element
\* per request, in the order of the requests.
Replies(posted) ==
    IF posted.shape = "object"
    THEN {<<ElementOf(posted.reqs[1], c, t)>> :
             c \in {0, WarmUpCode, OtherCode}, t \in tips}
    ELSE {[i \in 1..Len(posted.reqs) |-> ElementOf(posted.reqs[i], pat[i], 0)] :
             pat \in ErrorPatterns(Len(posted.reqs))}

\* Mutant of SingleOutcome: the two sleep durations are exchanged.
SingleOutcomeSwapped(dresult) ==
    LET err == dresult.error
    IN  IF err.isnull THEN [to |-> "return", secs |-> 0]
        ELSE IF err.code = WarmUpCode THEN [to |-> "sleep", secs |-> OtherSecs]
        ELSE [to |-> "sleep", secs |-> WarmUpSecs]

\* rpc_single: what the loop body does with the response.
SingleOutcome(dresult) ==
    LET err == dresult.error
    IN  IF err.isnull THEN [to |-> "return", secs |-> 0]
        ELSE IF err.code = WarmUpCode THEN [to |-> "sleep", secs |-> WarmUpSecs]
        ELSE [to |-> "sleep", secs |-> OtherSecs]

\* rpc_multi: what the loop body does with the response.  The for loop calls
\* err.get on every element up to the first one carrying the warm-up code;
\* err.get on a null error raises AttributeError.
MultiOutcome(body) ==
    LET errs == [i \in 1..Len(body) |-> body[i].error]
        halt == {i \in 1..Len(errs) : errs[i].isnull \/ errs[i].code = WarmUpCode}
        at == CHOOSE i \in halt : \A j \in halt : i <= j
    IN  IF \A i \in 1..Len(errs) : errs[i].isnull THEN [to |-> "return", secs |-> 0]
        ELSE IF halt = {} THEN [to |-> "sleep", secs |-> OtherSecs]
        ELSE IF errs[at].isnull THEN [to |-> "raise", secs |-> 0]
        ELSE [to |-> "sleep", secs |-> WarmUpSecs]

Outcome(body) ==
    IF payload.shape = "object" THEN SingleOutcome(body[1]) ELSE MultiOutcome(body)

InRpc == ppc \in {"post", "daemon_sleep", "rpc_sleep"}
InDaemon == ppc \in {"post", "daemon_sleep"}

\* rpc_single / rpc_multi up to the first await: build the payload, post it.
RpcStart(pl) ==
    /\ ppc' = "post"
    /\ method' = pl.reqs[1].method
    /\ payload' = pl
    /\ wire' = pl
    /\ secs' = 0

\* rpc_multi called with no parameter lists: the payload is an empty array.
RpcStartEmpty(m) ==
    /\ ppc' = "post"
    /\ method' = m
    /\ payload' = [shape |-> "array", reqs |-> <<>>]
    /\ wire' = [shape |-> "array", reqs |-> <<>>]
    /\ secs' = 0

\* Mutant of TransportFails: the exception is not caught and ends the task.
TransportFailsPropagates ==
    /\ ppc = "post"
    /\ ppc' = "raised"
    /\ UNCHANGED <<cacheVars, dbVars, exit, cache_used, count>>
    /\ UNCHANGED <<method, payload, wire, dresults, secs, cpc, moves, lastBatch, tips, prefill_room>>

\* daemon(): the attempt fails; the exception is logged and the 1-unit sleep begins.
TransportFails ==
    /\ ppc = "post"
    /\ ppc' = "daemon_sleep"
    /\ secs' = DaemonSecs
    /\ UNCHANGED <<cacheVars, dbVars, exit, cache_used, count>>
    /\ UNCHANGED <<method, payload, wire, dresults, cpc, moves, lastBatch, tips, prefill_room>>

\* daemon(): the sleep is over, the loop posts json.dumps(payload) again.
DaemonSleepDone ==
    /\ ppc = "daemon_sleep"
    /\ ppc' = "post"
    /\ wire' = payload
    /\ secs' = 0
    /\ UNCHANGED <<cacheVars, dbVars, exit, cache_used, count>>
    /\ UNCHANGED <<method, payload, dresults, cpc, moves, lastBatch, tips, prefill_room>>

\* rpc_single / rpc_multi: the response carries an error, the retry sleep begins.
RpcRetry ==
    /\ ppc = "post"
    /\ \E body \in Replies(wire) :
         /\ Outcome(body).to = "sleep"
         /\ dresults' = [bound |-> TRUE, body |-> body]
         /\ secs' = Outcome(body).secs
    /\ ppc' = "rpc_sleep"
    /\ UNCHANGED <<cacheVars, dbVars, exit, cache_used, count>>
    /\ UNCHANGED <<method, payload, wire, cpc, moves, lastBatch, tips, prefill_room>>

\* rpc_multi: err.get raises on a null error; nothing catches it, the task ends.
RpcRaises ==
    /\ ppc = "post"
    /\ \E body \in Replies(wire) :
         /\ Outcome(body).to = "raise"
         /\ dresults' = [bound |-> TRUE, body |-> body]
    /\ ppc' = "raised"
    /\ UNCHANGED <<cacheVars, dbVars, exit, cache_used, count>>
    /\ UNCHANGED <<method, payload, wire, secs, cpc, moves, lastBatch, tips, prefill_room>>

\* rpc_single / rpc_multi: the retry sleep is over, daemon(payload) is called again.
RpcSleepDone ==
    /\ ppc = "rpc_sleep"
    /\ ppc' = "post"
    /\ wire' = payload
    /\ secs' = 0
    /\ UNCHANGED <<cacheVars, dbVars, exit, cache_used, count>>
    /\ UNCHANGED <<method, payload, dresults, cpc, moves, lastBatch, tips, prefill_room>>

\* ----------------------------------------------- catch_up / maybe_prefill
\* catch_up once maybe_prefill has returned False.
CatchUpEnds(why) ==
    /\ ppc' = "done"
    /\ exit' = why
    /\ cache_used' = 0
    /\ count' = 0
    /\ UNCHANGED <<method, payload, wire, secs>>

\* Mutant of EnterLoop: the occupancy is compared with half the limit.
EnterLoopHalfLimit(blks) ==
    IF stop
    THEN CatchUpEnds("stop")
    ELSE IF CacheUsed(blks) > CacheLimitBytes \div 2
    THEN /\ ppc' = "driver_sleep"
         /\ secs' = DriverSecs
         /\ cache_used' = 0
         /\ count' = 0
         /\ UNCHANGED <<exit, method, payload, wire>>
    ELSE /\ cache_used' = CacheUsed(blks)
         /\ RpcStart([shape |-> "object", reqs |-> <<SingleRequest("getblockcount")>>])
         /\ UNCHANGED <<exit, count>>

\* Mutant of EnterLoop: the occupancy test of line 113 is left out.
EnterLoopNoLimit(blks) ==
    IF stop
    THEN CatchUpEnds("stop")
    ELSE /\ cache_used' = CacheUsed(blks)
         /\ RpcStart([shape |-> "object", reqs |-> <<SingleRequest("getblockcount")>>])
         /\ UNCHANGED <<exit, count>>

\* maybe_prefill from the head of its loop to its next await or return, and
\* what catch_up does with a return; blks is self.blocks at the loop head.
EnterLoop(blks) ==
    IF stop
    THEN CatchUpEnds("stop")
    ELSE IF CacheUsed(blks) > CacheLimitBytes
    THEN /\ ppc' = "driver_sleep"
         /\ secs' = DriverSecs
         /\ cache_used' = 0
         /\ count' = 0
         /\ UNCHANGED <<exit, method, payload, wire>>
    ELSE /\ cache_used' = CacheUsed(blks)
         /\ RpcStart([shape |-> "object", reqs |-> <<SingleRequest("getblockcount")>>])
         /\ UNCHANGED <<exit, count>>

\* The catch_up task starts: the first call of maybe_prefill.
CatchUpStart ==
    /\ ppc = "init"
    /\ EnterLoop(blocks)
    /\ UNCHANGED <<cacheVars, dbVars, dresults, cpc, moves, lastBatch, tips, prefill_room>>

\* catch_up's asyncio.sleep(1) is over: the next call of maybe_prefill.
DriverWake ==
    /\ ppc = "driver_sleep"
    /\ EnterLoop(blocks)
    /\ UNCHANGED <<cacheVars, dbVars, dresults, cpc, moves, lastBatch, tips, prefill_room>>

\* Mutant of RoundCount: prefill_count is given the room left in the buffer.
RoundCountRemaining(dh, fh, ave) ==
    LET max_count == Min(dh - fh, BatchCap)
    IN  Min(max_count, PrefillCount(CacheLimitBytes - CacheUsed(blocks), ave))

\* count as maybe_prefill computes it from the getblockcount result.
RoundCount(dh, fh, ave) ==
    LET max_count == Min(dh - fh, BatchCap)
    IN  Min(max_count, PrefillCount(CacheLimitBytes, ave))

\* Mutant of HashParams: the range starts at first + 1.
HashParamsOffByOne(first, cnt) ==
    [i \in 1..cnt |-> BatchRequest("getblockhash", [height |-> first + i])]

\* param_lists of the getblockhash batch.
HashParams(first, cnt) ==
    [i \in 1..cnt |-> BatchRequest("getblockhash", [height |-> first + i - 1])]

\* getblockcount returned: daemon_height, count, and the getblockhash batch.
CountReturns ==
    /\ ppc = "post"
    /\ method = "getblockcount"
    /\ \E body \in Replies(wire) :
         /\ Outcome(body).to = "return"
         /\ dresults' = [bound |-> TRUE, body |-> body]
         /\ LET dh == body[1].result.int
                cnt == RoundCount(dh, fetched_height, ave_size)
            IN  /\ dh # daemon_height => moves < MaxMoves
                /\ moves' = IF dh # daemon_height THEN moves + 1 ELSE moves
                /\ daemon_height' = dh
                /\ prefill_room' = CacheLimitBytes
                /\ IF cnt = 0 \/ stop
                   THEN CatchUpEnds("caught_up")
                   ELSE /\ count' = cnt
                        /\ IF cnt > 0
                           THEN RpcStart([shape |-> "array",
                                          reqs |-> HashParams(fetched_height + 1, cnt)])
                           ELSE RpcStartEmpty("getblockhash")
                        /\ UNCHANGED <<exit, cache_used>>
    /\ UNCHANGED <<stop, blocks, recent_sizes, ave_size, fetched_height>>
    /\ UNCHANGED <<dbVars, cpc, lastBatch, tips>>

\* Mutant of HashesReturn: fetched_height is advanced as soon as the hashes
\* are in.
HashesReturnAdvances ==
    /\ ppc = "post"
    /\ method = "getblockhash"
    /\ \E body \in Replies(wire) :
         /\ Outcome(body).to = "return"
         /\ dresults' = [bound |-> TRUE, body |-> body]
         /\ LET hashes == [i \in 1..Len(body) |-> body[i].result]
            IN  IF stop
                THEN CatchUpEnds("hashes_discarded")
                ELSE /\ IF hashes # <<>>
                        THEN RpcStart([shape |-> "array",
                                       reqs |-> [i \in 1..Len(hashes) |->
                                                   BatchRequest("getblock",
                                                     [hash |-> hashes[i], verbose |-> FALSE])]])
                        ELSE RpcStartEmpty("getblock")
                     /\ UNCHANGED <<exit, cache_used, count>>
    /\ fetched_height' = fetched_height + count
    /\ UNCHANGED <<stop, blocks, recent_sizes, ave_size, daemon_height>>
    /\ UNCHANGED <<dbVars, cpc, moves, lastBatch, tips, prefill_room>>

\* The getblockhash batch returned: the getblock batch, unless stopping.
HashesReturn ==
    /\ ppc = "post"
    /\ method = "getblockhash"
    /\ \E body \in Replies(wire) :
         /\ Outcome(body).to = "return"
         /\ dresults' = [bound |-> TRUE, body |-> body]
         /\ LET hashes == [i \in 1..Len(body) |-> body[i].result]
            IN  IF stop
                THEN CatchUpEnds("hashes_discarded")
                ELSE /\ IF hashes # <<>>
                        THEN RpcStart([shape |-> "array",
                                       reqs |-> [i \in 1..Len(hashes) |->
                                                   BatchRequest("getblock",
                                                     [hash |-> hashes[i], verbose |-> FALSE])]])
                        ELSE RpcStartEmpty("getblock")
                     /\ UNCHANGED <<exit, cache_used, count>>
    /\ UNCHANGED <<cacheVars, dbVars, cpc, moves, lastBatch, tips, prefill_room>>

\* Mutant of Trimmed: the oldest entries are kept.
TrimmedKeepsOldest(sizes) ==
    LET excess == Len(sizes) - WindowSize
    IN  IF excess > 0 THEN SubSeq(sizes, 1, WindowSize) ELSE sizes

\* recent_sizes after the new sizes are appended and the window is trimmed.
Trimmed(sizes) ==
    LET excess == Len(sizes) - WindowSize
    IN  IF excess > 0 THEN SubSeq(sizes, excess + 1, Len(sizes)) ELSE sizes

\* The getblock batch returned: fetched_height, the merge, the size window,
\* and the next turn of the loop up to its await.
BlocksReturn ==
    /\ ppc = "post"
    /\ method = "getblock"
    /\ \E body \in Replies(wire) :
         /\ Outcome(body).to = "return"
         /\ dresults' = [bound |-> TRUE, body |-> body]
         /\ LET decoded == [i \in 1..Len(body) |-> FromHex(body[i].result)]
                sizes == [i \in 1..Len(decoded) |-> decoded[i].len]
                window == Trimmed(recent_sizes \o sizes)
            IN  /\ fetched_height' = fetched_height + count
                /\ IF stop
                   THEN /\ CatchUpEnds("blocks_discarded")
                        /\ UNCHANGED <<blocks, recent_sizes, ave_size, lastBatch>>
                   ELSE /\ blocks' = Reversed(decoded) \o blocks
                        /\ lastBatch' = SumLen(decoded)
                        /\ recent_sizes' = window
                        /\ IF Len(window) = 0
                           THEN \* ZeroDivisionError
                                /\ ppc' = "raised"
                                /\ UNCHANGED <<ave_size, exit, cache_used, count>>
                                /\ UNCHANGED <<method, payload, wire, secs>>
                           ELSE /\ ave_size' = SumSeq(window) \div Len(window)
                                /\ EnterLoop(blocks')
                                /\ UNCHANGED exit
    /\ UNCHANGED <<stop, daemon_height, dbVars, cpc, moves, tips, prefill_room>>

Producer ==
    \/ CatchUpStart
    \/ DriverWake
    \/ TransportFails
    \/ DaemonSleepDone
    \/ RpcRetry
    \/ RpcRaises
    \/ RpcSleepDone
    \/ CountReturns
    \/ HashesReturn
    \/ BlocksReturn

Next == OnSignal \/ Consumer \/ Producer

Spec == Init /\ [][Next]_vars

\* The block at height h as the producer buffers it.
BlockAt(h) == FromHex(HexBlockOf(HashOf(h)))

\* The state in which a first round of n blocks above height d has been
\* merged, k of them are still buffered, and maybe_prefill has posted the
\* getblockcount of its next round: straight after the merge when the n
\* blocks fit the cache limit, after a driver pause otherwise.
SecondRound(d, n, k) ==
    LET sizes == [i \in 1..n |-> SizeOf(d + i)]
        direct == n > 0 /\ SumSeq(sizes) <= CacheLimitBytes
        pl == [shape |-> "object", reqs |-> <<SingleRequest("getblockcount")>>]
    IN  /\ db_height = d
        /\ fetched_height = d + n
        /\ daemon_height = IF n = 0 THEN 0 ELSE d + n
        /\ blocks = [i \in 1..k |-> BlockAt(d + n + 1 - i)]
        /\ processed = [i \in 1..(n - k) |-> d + i]
        /\ recent_sizes = sizes
        /\ ave_size = IF n = 0 THEN 0 ELSE SumSeq(sizes) \div n
        /\ lastBatch = SumSeq(sizes)
        /\ prefill_room = IF n = 0 THEN 0 ELSE CacheLimitBytes
        /\ moves = IF n = 0 THEN 0 ELSE 1
        /\ tips = {t \in {d + n + x : x \in CountTipDeltas} : t >= 0}
        /\ cache_used = IF direct THEN SumSeq(sizes) ELSE CacheUsed(blocks)
        /\ count = IF direct THEN n ELSE 0
        /\ cpc = IF n = 0 THEN "init" ELSE IF k = n THEN "sleep1" ELSE "sleep0"
        /\ dresults = IF n = 0 THEN NoResp
                      ELSE [bound |-> TRUE,
                            body |-> [i \in 1..n |->
                                [error |-> NoError, result |-> HexBlockOf(HashOf(d + i))]]]
        /\ ppc = "post"
        /\ method = "getblockcount"
        /\ payload = pl
        /\ wire = pl
        /\ secs = 0
        /\ exit = "none"
        /\ stop = FALSE
        /\ flushes = 0

CountInit ==
    \E d \in CountDbHeights, n \in CountFetched :
        \E k \in 0..n :
            /\ SumSeq([i \in 1..k |-> SizeOf(d + n + 1 - i)]) <= CacheLimitBytes
            /\ SecondRound(d, n, k)

\* The count of a round computed from each of these states.
CountSpec == CountInit /\ [][CountReturns]_vars

\* prefill_count called on a cache whose ave_size is one of PrefillAves, with
\* one of PrefillRooms.
PrefillInit ==
    /\ prefill_room \in PrefillRooms
    /\ ave_size \in PrefillAves
    /\ tips = {}
    /\ stop = FALSE
    /\ blocks = <<>>
    /\ recent_sizes = IF ave_size = 0 THEN <<>> ELSE <<ave_size>>
    /\ daemon_height = 0
    /\ db_height = 0
    /\ fetched_height = 0
    /\ processed = <<>>
    /\ flushes = 0
    /\ ppc = "init"
    /\ exit = "none"
    /\ cache_used = 0
    /\ count = 0
    /\ method = "none"
    /\ payload = NoPayload
    /\ wire = NoPayload
    /\ dresults = NoResp
    /\ secs = 0
    /\ cpc = "init"
    /\ moves = 0
    /\ lastBatch = 0

\* The call prefill_count(room) and its return value, kept in count.
PrefillCall ==
    /\ ppc = "init"
    /\ count' = PrefillCount(prefill_room, ave_size)
    /\ ppc' = "done"
    /\ UNCHANGED <<cacheVars, dbVars, exit, cache_used, rpcVars>>
    /\ UNCHANGED <<cpc, moves, lastBatch, tips, prefill_room>>

PrefillSpec == PrefillInit /\ [][PrefillCall]_vars

\* The same program catching up over more than 50 blocks.
WindowInit == Start(WindowDbHeights, WindowTips)

WindowSpec == WindowInit /\ [][Next]_vars

\* The same program in the end-to-end scenario.
ScenarioInit == Start(ScenarioDbHeights, ScenarioTips)

ScenarioSpec == ScenarioInit /\ [][Next]_vars

\* The event loop runs every task that is ready, every sleep ends and every
\* HTTP exchange ends, in a response or in an exception.
FairSpec == Spec /\ WF_vars(Producer) /\ WF_vars(Consumer)

\* The same, for one task alone: what process_cache needs of the event loop,
\* and what catch_up with its RPC calls needs of it.
ConsumerFair == Spec /\ WF_vars(Consumer)

ProducerFair == Spec /\ WF_vars(Producer)

\* ------------------------------------------------------------------ claims
\* C1: the heights handed to process_block are exactly db_height+1,
\* db_height+2, ..., none skipped, none repeated, none out of order.
C1_AscendingDelivery ==
    processed = [i \in 1..Len(processed) |-> db_height + i]

\* C2: whenever the buffer holds blocks, its heights go down by exactly 1 from
\* head to tail and its head is fetched_height, so that each merged batch
\* starts one above the previous head.
C2_DescendingBuffer ==
    blocks # <<>> =>
        /\ \A i \in 1..(Len(blocks) - 1) : blocks[i].height = blocks[i + 1].height + 1
        /\ blocks[1].height = fetched_height

\* C3: the buffer occupancy never exceeds the cache limit by more than the
\* bytes of the most recently merged batch, and a fetch round is in progress
\* only if the occupancy measured at its start was not above the limit.
C3_Backpressure ==
    /\ CacheUsed(blocks) <= CacheLimitBytes + lastBatch
    /\ InRpc => cache_used <= CacheLimitBytes

\* C3 witness: a merged batch has taken the occupancy above the limit.
C3_Witness ==
    /\ CacheUsed(blocks) > CacheLimitBytes
    /\ lastBatch > 0

\* A step in which daemon() returns a response to rpc_single / rpc_multi.
ReplyStep ==
    /\ ppc = "post"
    /\ ppc' \notin {"post", "daemon_sleep"} \/ method' # method

\* The rpc retry sleep is over and the request goes out again.
ResendStep == ppc = "rpc_sleep" /\ ppc' # "rpc_sleep"

ErrorsOf(body) == {body[i].error : i \in 1..Len(body)}
HasWarmUp(body) == \E e \in ErrorsOf(body) : ~e.isnull /\ e.code = WarmUpCode
HasError(body) == \E e \in ErrorsOf(body) : ~e.isnull

\* C4: a batch response with an element carrying -28 makes rpc_multi sleep 10
\* units, whatever its other elements are; one with an error and no -28 makes
\* it sleep 0 units; after the sleep the whole batch is posted again; results
\* are returned only if no element carries an error.
C4_BatchRetryPolicy ==
    /\ [][(ReplyStep /\ payload.shape = "array") =>
            /\ HasWarmUp(dresults'.body) =>
                 ppc' = "rpc_sleep" /\ secs' = WarmUpSecs /\ payload' = payload
            /\ (HasError(dresults'.body) /\ ~HasWarmUp(dresults'.body)) =>
                 ppc' = "rpc_sleep" /\ secs' = OtherSecs /\ payload' = payload
            /\ ppc' # "rpc_sleep" => ~HasError(dresults'.body)]_vars
    /\ [][(ResendStep /\ payload.shape = "array") =>
            ppc' = "post" /\ wire' = payload /\ payload' = payload]_vars

\* C10: rpc_single returns only the result of a response whose error is
\* empty; on -28 it sleeps 10 units, on any other code 0 units, and then posts
\* the same request again.
C10_SingleRetryPolicy ==
    /\ [][(ReplyStep /\ payload.shape = "object") =>
            /\ HasWarmUp(dresults'.body) =>
                 ppc' = "rpc_sleep" /\ secs' = WarmUpSecs /\ payload' = payload
            /\ (HasError(dresults'.body) /\ ~HasWarmUp(dresults'.body)) =>
                 ppc' = "rpc_sleep" /\ secs' = OtherSecs /\ payload' = payload
            /\ ppc' # "rpc_sleep" =>
                 /\ ~HasError(dresults'.body)
                 /\ daemon_height' = dresults'.body[1].result.int]_vars
    /\ [][(ResendStep /\ payload.shape = "object") =>
            ppc' = "post" /\ wire' = payload /\ payload' = payload]_vars

\* C10 witness: rpc_single sleeps 10 units on a -28 response to getblockcount.
C10_Witness ==
    /\ ppc = "rpc_sleep"
    /\ payload.shape = "object"
    /\ secs = WarmUpSecs
    /\ HasWarmUp(dresults.body)

RpcMethods == {"getblockcount", "getblockhash", "getblock"}

\* C9: daemon() never hands a transport error to its caller: a failed attempt
\* is followed by a 1-unit sleep and a post of the same payload, the call
\* ends only by returning a response to what was posted, and if attempts
\* eventually succeed (from some point on no attempt fails) no call of it
\* stays pending for ever; the 1-unit sleep always ends.
C9_TransportRetries ==
    /\ [][(ppc = "post" /\ ppc' = "daemon_sleep") =>
            secs' = DaemonSecs /\ payload' = payload]_vars
    /\ [][(ppc = "daemon_sleep" /\ ppc' # "daemon_sleep") =>
            ppc' = "post" /\ wire' = payload /\ payload' = payload]_vars
    /\ [][ReplyStep =>
            dresults'.bound /\ dresults'.body \in Replies(wire)]_vars
    /\ []<>(ppc # "daemon_sleep")
    /\ <>[](ppc # "daemon_sleep") =>
         \A m \in RpcMethods : []<>~(InDaemon /\ method = m)

\* C9 witness: the transport is in its 1-unit sleep after a failed attempt.
C9_Witness ==
    /\ ppc = "daemon_sleep"
    /\ secs = DaemonSecs
    /\ wire = payload

Suspended == ppc \in {"driver_sleep", "post", "daemon_sleep", "rpc_sleep"}

\* C6: once the shutdown flag is set, a suspended producer eventually
\* terminates without raising, whatever the daemon does.
C6_StopTerminatesProducer == (stop /\ Suspended) ~> (ppc = "done")

\* C7: flush is called exactly once over the run: never before the shutdown
\* flag is set, after the last process_block call, as the consumer's last
\* act, and eventually once the flag is set.
C7_FlushOnce ==
    /\ [](flushes <= 1 /\ (flushes = 1 => stop) /\ (flushes = 1 <=> cpc = "done"))
    /\ [][flushes = 1 => processed' = processed /\ flushes' = 1]_vars
    /\ stop ~> (flushes = 1 /\ cpc = "done")

\* C7 witness: the consumer has flushed after handing blocks to the processor.
C7_Witness ==
    /\ flushes = 1
    /\ cpc = "done"
    /\ processed # <<>>

\* C8: while the shutdown flag is set the buffer is empty and no block is
\* handed to process_block: the stop request empties the buffer and a batch
\* resolving afterwards is discarded.
C8_StopEmptiesBuffer ==
    /\ [](stop => blocks = <<>>)
    /\ [][stop => processed' = processed]_vars

\* C8 witness: a getblock batch resolved after the flag was set and was
\* discarded, blocks having been processed and buffered before.
C8_Witness ==
    /\ stop
    /\ exit = "blocks_discarded"
    /\ processed # <<>>
    /\ blocks = <<>>

\* C5: neither task nor an RPC call ever ends in a raised exception.
C5_NeverRaises == ppc # "raised"

HeightsOf(blks) == [i \in 1..Len(blks) |-> blks[i].height]

\* The heights a batch in flight asks for, by height or by hash.
RequestedHeights ==
    [i \in 1..Len(payload.reqs) |->
        IF method = "getblockhash" THEN payload.reqs[i].params.height
        ELSE payload.reqs[i].params.hash.hash]

\* A batch of the first round is in flight; the step that merges that round.
FirstRoundBatch(m) ==
    /\ InRpc
    /\ method = m
    /\ fetched_height = db_height
    /\ recent_sizes = <<>>

FirstMergeStep ==
    /\ fetched_height = db_height
    /\ recent_sizes = <<>>
    /\ blocks' # blocks
    /\ fetched_height' # fetched_height

Ascending(first, n) == [i \in 1..n |-> first + i - 1]
Descending(last, n) == [i \in 1..n |-> last - i + 1]

\* C11 as stated: from height 100 with tip 150 and no size history the first
\* round asks for 101..130 in one hash batch and one block batch, the buffer
\* then runs from 130 at its head to 101 at its tail, and the consumer pops
\* 101, 102, ... in order before any further call is issued.
C11_ScenarioThirty ==
    /\ [](\A m \in {"getblockhash", "getblock"} :
            FirstRoundBatch(m) => RequestedHeights = Ascending(db_height + 1, 30))
    /\ [][FirstMergeStep => HeightsOf(blocks') = Descending(db_height + 30, 30)]_vars
    /\ [](processed = Ascending(db_height + 1, Len(processed)))
    /\ []((InRpc /\ fetched_height # db_height /\ ~stop) => Len(processed) >= 30)

\* C11 amended: the first round asks for 101..110, the floor of 10 that an
\* empty size history gives, in one hash batch and one block batch; the
\* buffer then runs from 110 at its head to 101 at its tail, and the consumer
\* pops 101, 102, ... in that order.
C11_ScenarioTen ==
    /\ [](\A m \in {"getblockhash", "getblock"} :
            FirstRoundBatch(m) =>
                /\ daemon_height = 150
                /\ payload.shape = "array"
                /\ RequestedHeights = Ascending(db_height + 1, MinPrefill))
    /\ [][FirstMergeStep =>
            HeightsOf(blocks') = Descending(db_height + MinPrefill, MinPrefill)]_vars
    /\ [](processed = Ascending(db_height + 1, Len(processed)))

\* C11 witness: the first round is merged and the consumer has popped 101
\* and 102 while 110 is still the head of the buffer.
C11_Witness ==
    /\ db_height = 100
    /\ processed = <<101, 102>>
    /\ blocks # <<>>
    /\ blocks[1].height = 110

\* A non-empty batch of method m is in flight.
BatchInFlight(m) == InRpc /\ method = m /\ payload.reqs # <<>>

\* The step in which the getblock batch resolves and maybe_prefill runs on.
BlocksResolveStep ==
    /\ ppc = "post"
    /\ method = "getblock"
    /\ ppc' \in {"done", "driver_sleep"} \/ method' # method

\* C12 as stated: while the getblock batch of a round is in flight,
\* fetched_height already equals the highest height requested in that round.
C12_AdvancedBeforeBlocks ==
    BatchInFlight("getblock") =>
        fetched_height = RequestedHeights[Len(payload.reqs)]

\* C12 amended: while the getblockhash or the getblock batch of a round is in
\* flight fetched_height is still one below the lowest height requested; it
\* changes only in the step in which the getblock batch resolves, which adds
\* count to it.
C12_AdvancedAfterBlocks ==
    /\ [](\A m \in {"getblockhash", "getblock"} :
            BatchInFlight(m) => fetched_height = RequestedHeights[1] - 1)
    /\ [][fetched_height' # fetched_height => ppc = "post" /\ method = "getblock"]_vars
    /\ [][BlocksResolveStep => fetched_height' = fetched_height + count]_vars

\* C12 witness: the getblock batch of a later round is in flight, count
\* blocks asked for, fetched_height not yet advanced.
C12_Witness ==
    /\ BatchInFlight("getblock")
    /\ count = Len(payload.reqs)
    /\ fetched_height > db_height
    /\ fetched_height < RequestedHeights[1]

\* prefill_count(room) in the words of the claim.
ClaimedPrefill(rm) == IF ave_size # 0 THEN Max(10, rm \div ave_size) ELSE 10

\* min(daemon_height - fetched_height, 4000, prefill_count(rm)).
ClaimedCount(rm) == Min(Min(daemon_height - fetched_height, 4000), ClaimedPrefill(rm))

HashBatchPosted == ppc = "post" /\ method = "getblockhash"

\* C13 as stated: the number of blocks a round requests is min(daemon_height
\* - fetched_height, 4000, prefill_count(remaining room)), the remaining room
\* being the cache limit minus the buffer occupancy.
C13_CountOfRemainingRoom ==
    (HashBatchPosted /\ daemon_height >= fetched_height) =>
        Len(payload.reqs) = ClaimedCount(CacheLimitBytes - cache_used)

\* C13 amended: the count of a round is min(daemon_height - fetched_height,
\* 4000, prefill_count(cache limit)), the whole limit whatever the occupancy;
\* max(count, 0) heights are requested, and no batch when it is 0.
C13_CountOfWholeLimit ==
    /\ HashBatchPosted =>
          /\ count = ClaimedCount(CacheLimitBytes)
          /\ prefill_room = CacheLimitBytes
          /\ Len(payload.reqs) = Max(count, 0)
          /\ count # 0
    /\ (exit = "caught_up" /\ ~stop) => ClaimedCount(CacheLimitBytes) = 0

\* C13 witness: a round whose count is prefill_count of the whole limit, more
\* than the room left in the buffer would give.
C13_Witness ==
    /\ HashBatchPosted
    /\ Len(payload.reqs) = ClaimedPrefill(CacheLimitBytes)
    /\ cache_used > 0
    /\ ClaimedPrefill(CacheLimitBytes) > ClaimedPrefill(CacheLimitBytes - cache_used)
    /\ ClaimedPrefill(CacheLimitBytes) < daemon_height - fetched_height


\* C14: every hash batch issued asks for fetched_height+1 ..
\* fetched_height+count with 1 <= count <= 4000 and fetched_height+count <=
\* daemon_height: never more than 4000 blocks, never above the known tip.
C14_BatchWithinTip ==
    HashBatchPosted =>
        /\ 1 <= count
        /\ count <= 4000
        /\ fetched_height + count <= daemon_height
        /\ RequestedHeights = Ascending(fetched_height + 1, count)


\* C15: prefill_count(room) is at least 10 for every room and average, and is
\* room div average whenever the average is nonzero and that quotient
\* exceeds 10.
C15_PrefillFloor ==
    ppc = "done" =>
        /\ count >= 10
        /\ (ave_size # 0 /\ prefill_room \div ave_size > 10) =>
              count = prefill_room \div ave_size

\* C15 witness: prefill_count(0) with no average known has returned 10.
C15_Witness ==
    /\ ppc = "done"
    /\ prefill_room = 0
    /\ ave_size = 0
    /\ count = 10


\* The last n entries of s, all of s when it has fewer.
LastOf(s, n) ==
    LET m == Min(n, Len(s))
    IN  [i \in 1..m |-> s[Len(s) - m + i]]

\* A batch is merged: the buffer grows at its head.
MergeStep == Len(blocks') > Len(blocks)

\* The lengths of the blocks a MergeStep adds, in fetch order.
MergedSizes ==
    LET n == Len(blocks') - Len(blocks)
    IN  [i \in 1..n |-> blocks'[n + 1 - i].len]

\* The lengths of the blocks at heights lo..hi, in height order.
ChainSizes(lo, hi) == [i \in 1..(hi - lo + 1) |-> SizeOf(lo + i - 1)]

\* C16: the size window holds the lengths of the most recently fetched
\* blocks, at most 50 of them in fetch order, and ave_size is the
\* integer-truncated mean of exactly those; once more than 50 blocks have
\* been fetched, of the last 50 only.
C16_RollingAverage ==
    /\ [](Len(recent_sizes) <= 50)
    /\ [](IF recent_sizes = <<>> THEN ave_size = 0
          ELSE ave_size = SumSeq(recent_sizes) \div Len(recent_sizes))
    /\ [][MergeStep => recent_sizes' = LastOf(recent_sizes \o MergedSizes, 50)]_vars
    /\ [][recent_sizes' # recent_sizes => MergeStep]_vars
    /\ []((moves <= 1 /\ exit # "blocks_discarded") =>
            recent_sizes = LastOf(ChainSizes(db_height + 1, fetched_height), 50))

\* C16 witness: 54 blocks have been fetched, the window holds the last 50
\* and their mean differs from the mean of all 54.
C16_Witness ==
    /\ fetched_height = db_height + 54
    /\ Len(recent_sizes) = 50
    /\ recent_sizes[1] = SizeOf(db_height + 5)
    /\ ave_size # SumSeq(ChainSizes(db_height + 1, fetched_height)) \div 54


\* C17 as stated: every round that merges a batch is followed by a driver
\* pause of 1 unit before the next round begins.
C17_PauseAfterEveryMerge ==
    [][MergeStep => ppc' = "driver_sleep" /\ secs' = DriverSecs]_vars

\* C17 amended: after a merge the producer step loops on; it signals
\* 'continue' only when the occupancy exceeds the cache limit, and the driver
\* then pauses 1 unit and calls it again; otherwise the getblockcount of the
\* next round is issued in the same step, with no driver pause.
C17_PauseOnlyWhenFull ==
    /\ [][MergeStep =>
            IF CacheUsed(blocks') > CacheLimitBytes
            THEN ppc' = "driver_sleep" /\ secs' = DriverSecs
            ELSE ppc' = "post" /\ method' = "getblockcount"]_vars
    /\ [][(ppc # "driver_sleep" /\ ppc' = "driver_sleep") =>
            MergeStep /\ CacheUsed(blocks') > CacheLimitBytes]_vars
    /\ [][(ppc = "driver_sleep" /\ ppc' # "driver_sleep") =>
            stop \/ CacheUsed(blocks) <= CacheLimitBytes]_vars

\* C17 witness: the getblockcount of the next round is in flight, issued
\* straight after a merge that left the buffer within the limit.
C17_Witness ==
    /\ ppc = "post"
    /\ method = "getblockcount"
    /\ count > 0
    /\ lastBatch > 0
    /\ cache_used = lastBatch
    /\ blocks # <<>>


\* Steps told apart by what they change: a step of process_cache, the pop
\* among them, and the stop request.
ConsumerStep == cpc' # cpc \/ processed' # processed \/ flushes' # flushes
PopStep == processed' # processed
StopStep == stop' # stop

\* C18: a consumer step removes exactly the tail of the buffer and leaves the
\* rest of it, fetched_height, daemon_height, the size window and ave_size
\* alone; the stop request changes only the buffer and the flag; the heights,
\* the window and ave_size are changed by producer steps only.
C18_Frames ==
    /\ [][PopStep =>
            /\ blocks # <<>>
            /\ blocks' = SubSeq(blocks, 1, Len(blocks) - 1)
            /\ processed' = Append(processed, blocks[Len(blocks)].height)]_vars
    /\ [][ConsumerStep =>
            /\ PopStep \/ blocks' = blocks
            /\ UNCHANGED <<stop, fetched_height, daemon_height, recent_sizes, ave_size>>
            /\ UNCHANGED <<prodVars, rpcVars>>]_vars
    /\ [][StopStep =>
            /\ stop'
            /\ blocks' = <<>>
            /\ UNCHANGED <<fetched_height, daemon_height, recent_sizes, ave_size>>
            /\ UNCHANGED <<dbVars, prodVars, rpcVars, cpc>>]_vars
    /\ [][<<fetched_height, daemon_height, recent_sizes, ave_size>>' #
             <<fetched_height, daemon_height, recent_sizes, ave_size>> =>
            ReplyStep /\ ~ConsumerStep /\ ~StopStep]_vars
    /\ [][blocks' # blocks => PopStep \/ StopStep \/ MergeStep]_vars

\* C18 witness: the consumer has popped the tail of a buffer of several
\* blocks, under a producer that has fetched them.
C18_Witness ==
    /\ cpc = "sleep0"
    /\ processed # <<>>
    /\ Len(blocks) >= 2
    /\ processed[Len(processed)] = blocks[Len(blocks)].height - 1
    /\ Len(recent_sizes) >= 3


\* C19: fetched_height never decreases, whatever getblockcount answers; an
\* answer below fetched_height issues no batch and ends the producer.
C19_FetchedNeverDecreases ==
    /\ [][fetched_height' >= fetched_height]_vars
    /\ [][(ReplyStep /\ method = "getblockcount" /\ ppc' # "rpc_sleep"
              /\ daemon_height' < fetched_height) =>
            ppc' = "done"]_vars

\* Every RPC call returns: none stays pending for ever and none ends in an
\* exception raised over an error element.
RpcCallsSucceed ==
    /\ []<>~InRpc
    /\ [](ppc = "raised" => ~HasError(dresults.body))

\* C20: if shutdown is never requested and every RPC call eventually
\* succeeds, the producer eventually signals done with fetched_height equal
\* to the last daemon_height, and the buffer is eventually empty for good,
\* every merged block having been passed to process_block.
C20_CatchUpCompletes ==
    ([]~stop /\ RpcCallsSucceed) =>
        /\ <>(ppc = "done" /\ exit = "caught_up" /\ fetched_height = daemon_height)
        /\ <>[](blocks = <<>>)

====
